---- MODULE Spec2Model ----
(***************************************************************************)
(* Model of agriculture_platform.py: a Streamlit script that is re-run     *)
(* from top to bottom (main) on every user event.                          *)
(*                                                                         *)
(* Names: the Chinese column names, crop names and page names of the       *)
(* source are written in ASCII here:                                       *)
(*   columns  plot = zhongzhi dikuai, crop = zuowu mingcheng,              *)
(*            type = zuowu leixing, area = zhongzhi mianji/mu,             *)
(*            season = zhongzhi jici, yield = muchanliang/jin,             *)
(*            cost = zhongzhi chengben, price = xiaoshou danjia,           *)
(*            land = dikuai leixing, profit = muxiaoyi/yuan,               *)
(*            ratio = touru chanchu bi                                     *)
(*   pages    dashboard, planner, risk, benefit, about                     *)
(* Numbers: pandas/numpy floats are modelled as exact rationals            *)
(* [n |-> numerator, d |-> denominator]; d = 0 encodes the IEEE results of *)
(* a float64 division by zero (n = 1: inf, n = -1: -inf, n = 0: nan).      *)
(***************************************************************************)
EXTENDS Integers, Sequences, FiniteSets, TLC

(***************************************************************************)
(* Bounds of the exploration.                                              *)
(***************************************************************************)
\* number of widgets that may differ from their default value at a time
MaxChanged == 1
\* the process-global numpy generator starts in one of 0..MaxInitRng
MaxInitRng == 2
\* arguments given to a percentage delta: 50 * k, k in -MaxK..MaxK
MaxK == 3
\* longest plot table and longest economics table given to a view function
MaxPlots == 2
MaxCrops == 4

(***************************************************************************)
(* Exact rational arithmetic standing in for float64.                      *)
(***************************************************************************)
Abs(x) == IF x < 0 THEN -x ELSE x

Sgn(x) == IF x < 0 THEN -1 ELSE IF x = 0 THEN 0 ELSE 1

RECURSIVE GCD(_, _)
GCD(a, b) == IF b = 0 THEN a ELSE GCD(b, a % b)

\* n/d in lowest terms, d > 0; x/0 is inf, -inf or nan as in float64
R(n, d) ==
    IF d = 0 THEN [n |-> Sgn(n), d |-> 0]
    ELSE LET g == GCD(Abs(n), Abs(d))
             s == IF d < 0 THEN -1 ELSE 1
         IN [n |-> (s * n) \div g, d |-> (s * d) \div g]

I(k) == [n |-> k, d |-> 1]

IsFinite(a) == a.d # 0

RAdd(a, b) == R(a.n * b.d + b.n * a.d, a.d * b.d)

RSub(a, b) == R(a.n * b.d - b.n * a.d, a.d * b.d)

RMul(a, b) == R(a.n * b.n, a.d * b.d)

\* float64 division: a finite quotient, or inf/-inf/nan when b is 0
RDiv(a, b) == R(a.n * b.d, a.d * b.n)

RLt(a, b) == a.n * b.d < b.n * a.d

RGt(a, b) == RLt(b, a)

RECURSIVE RSum(_)
RSum(s) == IF s = <<>> THEN I(0) ELSE RAdd(Head(s), RSum(Tail(s)))

(***************************************************************************)
(* Tables (pandas DataFrames): the ordered column names and the rows, each *)
(* row a function from column name to value.                               *)
(***************************************************************************)
EmptyTable == [columns |-> <<>>, rows |-> <<>>]

Column(t, c) == [i \in 1..Len(t.rows) |-> t.rows[i][c]]

Range(s) == {s[i] : i \in 1..Len(s)}

\* df[c] = values: adds column c (or overwrites it), row by row
SetColumn(t, c, values) ==
    [columns |-> IF c \in Range(t.columns) THEN t.columns ELSE Append(t.columns, c),
     rows |-> [i \in 1..Len(t.rows) |->
                 [k \in (DOMAIN t.rows[i]) \cup {c} |->
                     IF k = c THEN values[i] ELSE t.rows[i][k]]]]

PlotRow(p, c, ty, a, s) ==
    [plot |-> p, crop |-> c, type |-> ty, area |-> I(a), season |-> s]

PlantingData ==
    [columns |-> <<"plot", "crop", "type", "area", "season">>,
     rows |-> << PlotRow("A1", "wheat",     "grain",      80, "single"),
                 PlotRow("A2", "corn",      "grain",      55, "single"),
                 PlotRow("A3", "corn",      "grain",      35, "single"),
                 PlotRow("A4", "soybean",   "grain_bean", 72, "single"),
                 PlotRow("A5", "mungbean",  "grain_bean", 68, "single"),
                 PlotRow("A6", "millet",    "grain",      55, "single"),
                 PlotRow("B1", "wheat",     "grain",      60, "single"),
                 PlotRow("B2", "blackbean", "grain_bean", 46, "single"),
                 PlotRow("B3", "redbean",   "grain_bean", 40, "single"),
                 PlotRow("B4", "mungbean",  "grain_bean", 28, "single") >>]

\* price is given in tenths of a yuan: 15 is 1.5
CropRow(c, y, cost, price10, land) ==
    [crop |-> c, yield |-> I(y), cost |-> I(cost), price |-> R(price10, 10),
     land |-> land]

BenefitColumns == <<"crop", "yield", "cost", "price", "land">>

BenefitRows ==
    << CropRow("wheat",     600,  500,  15,  "flat_dry"),
       CropRow("corn",      800,  600,  12,  "flat_dry"),
       CropRow("soybean",   400,  400,  30,  "flat_dry"),
       CropRow("mungbean",  350,  350,  70,  "flat_dry"),
       CropRow("blackbean", 500,  400,  75,  "flat_dry"),
       CropRow("redbean",   400,  350,  80,  "flat_dry"),
       CropRow("millet",    450,  400,  20,  "flat_dry"),
       CropRow("tomato",    3000, 1200, 25,  "irrigated"),
       CropRow("cucumber",  4000, 1500, 20,  "greenhouse"),
       CropRow("mushroom",  2000, 8000, 150, "greenhouse") >>

\* variant of profit_per_mu that reports a loss as 0
profit_per_mu_clamped(yield, price, cost) ==
    IF RLt(RSub(RMul(yield, price), cost), I(0)) THEN I(0)
    ELSE RSub(RMul(yield, price), cost)

\* line 42: yield * price - cost, element-wise, no clamping
profit_per_mu(yield, price, cost) == RSub(RMul(yield, price), cost)

\* lines 33-43: the economics table with its derived profit column
with_profit(t) ==
    SetColumn(t, "profit",
              [i \in 1..Len(t.rows) |->
                  profit_per_mu(t.rows[i].yield, t.rows[i].price, t.rows[i].cost)])

load_sample_data ==
    [planting_data |-> PlantingData,
     benefit_data |-> with_profit([columns |-> BenefitColumns, rows |-> BenefitRows])]

(***************************************************************************)
(* pandas operations used by the views.                                    *)
(***************************************************************************)
Min(a, b) == IF a < b THEN a ELSE b

\* Series.sum() / Series.mean()
sum(s) == RSum(s)

mean(s) == RDiv(RSum(s), I(Len(s)))

\* Series.unique(): the distinct values in order of first appearance
RECURSIVE unique(_)
unique(s) ==
    IF s = <<>> THEN <<>>
    ELSE LET u == unique(SubSeq(s, 1, Len(s) - 1))
         IN IF s[Len(s)] \in Range(u) THEN u ELSE Append(u, s[Len(s)])

nunique(s) == Cardinality(Range(s))

\* indexes of keys in sorted order; rows with equal keys keep their order
\* (the mergesort of pandas' SelectN with keep='first')
RECURSIVE InsertIdx(_, _, _, _)
InsertIdx(s, i, keys, desc) ==
    IF s = <<>> THEN <<i>>
    ELSE IF (IF desc THEN RGt(keys[i], keys[Head(s)]) ELSE RLt(keys[i], keys[Head(s)]))
         THEN <<i>> \o s
         ELSE <<Head(s)>> \o InsertIdx(Tail(s), i, keys, desc)

RECURSIVE SortIdx(_, _, _)
SortIdx(k, keys, desc) ==
    IF k = 0 THEN <<>> ELSE InsertIdx(SortIdx(k - 1, keys, desc), k, keys, desc)

SelectN(t, n, c, desc) ==
    LET idx == SortIdx(Len(t.rows), Column(t, c), desc)
    IN [columns |-> t.columns,
        rows |-> [j \in 1..Min(n, Len(t.rows)) |-> t.rows[idx[j]]]]

\* variant of nlargest that ranks the later of two equal rows first
nlargest_keep_last(t, n, c) ==
    SelectN([columns |-> t.columns,
             rows |-> [i \in 1..Len(t.rows) |-> t.rows[Len(t.rows) + 1 - i]]], n, c, TRUE)

\* DataFrame.nlargest(n, c) / Series.nlargest(n), keep='first'
nlargest(t, n, c) == SelectN(t, n, c, TRUE)

nsmallest(t, n, c) == SelectN(t, n, c, FALSE)

\* code-point order of the (Chinese) names, which groupby sorts its keys by
NameOrder ==
    << "wheat", "unknown", "rice", "corn", "redbean", "mungbean", "tomato",
       "millet", "mushroom", "sorghum", "cucumber", "soybean", "blackbean",
       "grain", "grain_bean" >>

Rank(name) == CHOOSE i \in 1..Len(NameOrder) : NameOrder[i] = name

\* the group keys of df.groupby(key): distinct values, sorted
GroupKeys(t, key) ==
    LET u == unique(Column(t, key))
        idx == SortIdx(Len(u), [i \in 1..Len(u) |-> I(Rank(u[i]))], FALSE)
    IN [j \in 1..Len(u) |-> u[idx[j]]]

RowsWhere(t, c, v) == SelectSeq(t.rows, LAMBDA r : r[c] = v)

\* variant of groupby_sum that keeps the first row of each group only
groupby_first(t, key, val) ==
    LET g == GroupKeys(t, key)
    IN [columns |-> <<key, val>>,
        rows |-> [j \in 1..Len(g) |->
                    [k \in {key, val} |->
                        IF k = key THEN g[j] ELSE RowsWhere(t, key, g[j])[1][val]]]]

\* df.groupby(key)[val].sum().reset_index()
groupby_sum(t, key, val) ==
    LET g == GroupKeys(t, key)
    IN [columns |-> <<key, val>>,
        rows |-> [j \in 1..Len(g) |->
                    [k \in {key, val} |->
                        IF k = key THEN g[j]
                        ELSE sum([i \in 1..Len(RowsWhere(t, key, g[j])) |->
                                     RowsWhere(t, key, g[j])[i][val]])]]]

\* df.groupby(key).size().reset_index(name=cnt)
groupby_size(t, key, cnt) ==
    LET g == GroupKeys(t, key)
    IN [columns |-> <<key, cnt>>,
        rows |-> [j \in 1..Len(g) |->
                    [k \in {key, cnt} |->
                        IF k = key THEN g[j] ELSE Len(RowsWhere(t, key, g[j]))]]]

(***************************************************************************)
(* create_dashboard                                                        *)
(***************************************************************************)
create_dashboard(planting_data, benefit_data) ==
    [fn |-> "create_dashboard",
     total_area |-> sum(Column(planting_data, "area")),
     crop_types |-> nunique(Column(planting_data, "type")),
     crop_varieties |-> nunique(Column(planting_data, "crop")),
     plot_count |-> Len(planting_data.rows),
     avg_benefit |-> mean(Column(benefit_data, "profit")),
     type_dist |-> groupby_sum(planting_data, "type", "area"),
     crop_dist |-> nlargest(groupby_sum(planting_data, "crop", "area"), 10, "area"),
     top_crops |-> nlargest(benefit_data, 10, "profit"),
     scatter |-> benefit_data]

(***************************************************************************)
(* numpy's process-global random generator.  The Mersenne Twister is       *)
(* modelled by a small linear congruential generator: seeding fixes the    *)
(* state, every draw advances it and is a function of the new state.       *)
(***************************************************************************)
seed(k) == k % 101

rng_next(s) == (37 * s + 11) % 101

RECURSIVE rng_after(_, _)
rng_after(s, k) == IF k = 0 THEN s ELSE rng_next(rng_after(s, k - 1))

\* np.random.choice(values) from generator state s
choice(values, s) == values[(rng_next(s) % Len(values)) + 1]

(***************************************************************************)
(* display_optimization_result                                             *)
(***************************************************************************)
\* line 173, the planner's percentage delta
improvement(new_benefit, current_benefit) ==
    IF RGt(current_benefit, I(0))
    THEN RMul(RDiv(RSub(new_benefit, current_benefit), current_benefit), I(100))
    ELSE I(100)

\* lines 167-168
current_crop(planting_data, plot) ==
    IF plot \in Range(Column(planting_data, "plot"))
    THEN RowsWhere(planting_data, "plot", plot)[1].crop
    ELSE "unknown"

\* variant of benefit_of that reads a row without checking the crop is listed
benefit_of_unchecked(benefit_data, crop, default) ==
    IF crop \in Range(Column(benefit_data, "crop"))
    THEN RowsWhere(benefit_data, "crop", crop)[1].profit
    ELSE benefit_data.rows[1].profit

\* lines 170-172: profit of the first row of that crop, the default for an
\* unlisted crop (the recommended crop is drawn from the table: always listed)
benefit_of(benefit_data, crop, default) ==
    IF crop \in Range(Column(benefit_data, "crop"))
    THEN RowsWhere(benefit_data, "crop", crop)[1].profit
    ELSE default

\* lines 166-182: one row of result_data, drawn from generator state s
result_row(planting_data, benefit_data, plot, s) ==
    LET cur == current_crop(planting_data, plot)
        rec == choice(Column(benefit_data, "crop"), s)
        current_benefit == benefit_of(benefit_data, cur, I(0))
        new_benefit == benefit_of(benefit_data, rec, I(0))
    IN [plot |-> plot, current_crop |-> cur, recommended_crop |-> rec,
        current_benefit |-> current_benefit, new_benefit |-> new_benefit,
        improvement |-> improvement(new_benefit, current_benefit)]

ResultColumns ==
    <<"plot", "current_crop", "recommended_crop", "current_benefit",
      "new_benefit", "improvement">>

\* lines 214-219, in percent and tenths of a percent
ComparisonData ==
    [columns |-> <<"metric", "current", "optimized", "change">>,
     rows |-> << [metric |-> "total_benefit",  current |-> 65, optimized |-> 85, change |-> R(308, 10)],
                 [metric |-> "resource_use",   current |-> 70, optimized |-> 88, change |-> R(257, 10)],
                 [metric |-> "risk_level",     current |-> 45, optimized |-> 65, change |-> R(444, 10)],
                 [metric |-> "labour",         current |-> 80, optimized |-> 75, change |-> R(-62, 10)],
                 [metric |-> "sustainability", current |-> 60, optimized |-> 82, change |-> R(367, 10)] >>]

\* variant of loop_start that goes on from the state it finds
loop_start_unseeded(rng) == rng

\* the generator state the loop starts from: line 162 reseeds it
loop_start(rng) == seed(42)

\* returns what is displayed and the generator state left behind;
\* np.random.choice raises ValueError on an empty economics table
display_optimization_result(planting_data, benefit_data, rng) ==
    LET s0 == loop_start(rng)
        all == unique(Column(planting_data, "plot"))
        plots == SubSeq(all, 1, Min(15, Len(all)))
        raised == Len(plots) > 0 /\ Len(benefit_data.rows) = 0
        result_df ==
            [columns |-> ResultColumns,
             rows |-> IF raised THEN <<>>
                      ELSE [i \in 1..Len(plots) |->
                              result_row(planting_data, benefit_data, plots[i],
                                         rng_after(s0, i - 1))]]
    IN [out |-> [shown |-> TRUE,
                 raised |-> raised,
                 result_df |-> result_df,
                 fig_improvement |-> nlargest(result_df, 10, "improvement"),
                 crop_changes |-> groupby_size(result_df, "recommended_crop", "count"),
                 comparison_df |-> IF raised THEN EmptyTable ELSE ComparisonData],
        rng |-> IF raised THEN s0 ELSE rng_after(s0, Len(plots))]

(***************************************************************************)
(* create_planner                                                          *)
(***************************************************************************)
NoResult == [shown |-> FALSE]

\* variant of planner_result that ignores the button
planner_result_always(planting_data, benefit_data, button, rng) ==
    display_optimization_result(planting_data, benefit_data, rng)

\* line 136: the result is produced only in the pass the button triggered
planner_result(planting_data, benefit_data, button, rng) ==
    IF button
    THEN display_optimization_result(planting_data, benefit_data, rng)
    ELSE [out |-> NoResult, rng |-> rng]

create_planner(planting_data, benefit_data, w, button, rng) ==
    LET r == planner_result(planting_data, benefit_data, button, rng)
    IN [out |-> [fn |-> "create_planner",
                 years |-> w.years, risk_level |-> w.risk_level,
                 economic_weight |-> w.economic_weight,
                 stability_weight |-> w.stability_weight,
                 sustainability_weight |-> w.sustainability_weight,
                 min_bean_rotation |-> w.min_bean_rotation,
                 avoid_same_crop |-> w.avoid_same_crop,
                 min_plot_size |-> w.min_plot_size,
                 result |-> r.out,
                 high_value_crops |-> Column(nlargest(benefit_data, 3, "profit"), "crop"),
                 underutilized |->
                     Column(nsmallest(groupby_sum(planting_data, "crop", "area"), 2, "area"),
                            "crop")],
        rng |-> r.rng]

(***************************************************************************)
(* create_risk_simulator                                                   *)
(***************************************************************************)
\* variant of scenario_adjustment that returns the change alone
scenario_adjustment_no_base(base_value, percent_change) ==
    RMul(base_value, RDiv(I(percent_change), I(100)))

\* lines 247-249: base * (1 + percent / 100)
scenario_adjustment(base_value, percent_change) ==
    RMul(base_value, RAdd(I(1), RDiv(I(percent_change), I(100))))

\* line 252, the simulator's percentage delta: no guard on the divisor
profit_change(new_profit, original_profit) ==
    RMul(RDiv(RSub(new_profit, original_profit), original_profit), I(100))

\* line 263: np.linspace(-40, 40, 9)
price_range == [i \in 1..9 |-> -40 + 10 * (i - 1)]

Scenarios == <<"normal", "mild_drought", "severe_drought", "flood", "frost", "heat">>

\* lines 286-291
ScenariosData ==
    [columns |-> <<"scenario", "yield_effect", "cost_effect", "probability">>,
     rows |-> << [scenario |-> "normal",         yield_effect |-> 0,   cost_effect |-> 0,  probability |-> 60],
                 [scenario |-> "mild_drought",   yield_effect |-> -15, cost_effect |-> 10, probability |-> 20],
                 [scenario |-> "severe_drought", yield_effect |-> -40, cost_effect |-> 25, probability |-> 5],
                 [scenario |-> "flood",          yield_effect |-> -25, cost_effect |-> 30, probability |-> 8],
                 [scenario |-> "frost",          yield_effect |-> -20, cost_effect |-> 15, probability |-> 4],
                 [scenario |-> "heat",           yield_effect |-> -10, cost_effect |-> 5,  probability |-> 3] >>]

Policies == {"grain_subsidy", "eco_compensation", "insurance", "water_management", "carbon"}

create_risk_simulator(benefit_data, w) ==
    LET crop_data == RowsWhere(benefit_data, "crop", w.selected_crop)[1]
        original_profit == crop_data.profit
        new_price == scenario_adjustment(crop_data.price, w.price_change)
        new_yield == scenario_adjustment(crop_data.yield, w.yield_change)
        new_cost == scenario_adjustment(crop_data.cost, w.cost_change)
        new_profit == RSub(RMul(new_yield, new_price), new_cost)
    IN [fn |-> "create_risk_simulator",
        selected_crop |-> w.selected_crop,
        new_price |-> new_price, new_yield |-> new_yield, new_cost |-> new_cost,
        original_profit |-> original_profit,
        new_profit |-> new_profit,
        profit_change |-> profit_change(new_profit, original_profit),
        profit_changes |->
            [i \in 1..Len(price_range) |->
                RSub(RMul(new_yield, scenario_adjustment(crop_data.price, price_range[i])),
                     new_cost)],
        selected_scenario |-> RowsWhere(ScenariosData, "scenario", w.scenario)[1],
        scenarios_df |-> ScenariosData,
        policy_selected |-> w.policy_options # {}]

(***************************************************************************)
(* create_benefit_analysis                                                 *)
(***************************************************************************)
Pow10(k) == IF k = 0 THEN 1 ELSE IF k = 1 THEN 10 ELSE 100

\* DataFrame.round: to k decimals, halves to the even neighbour
round(r, k) ==
    LET x == r.n * Pow10(k)
        q == x \div r.d
        rem == x % r.d
        up == 2 * rem > r.d \/ (2 * rem = r.d /\ q % 2 = 1)
    IN R(IF up THEN q + 1 ELSE q, Pow10(k))

\* label of the first row holding the maximum of column c
idxmax(t, c) == SortIdx(Len(t.rows), Column(t, c), TRUE)[1]

\* line 359: profit / cost, element-wise
input_output_ratio(t) ==
    [i \in 1..Len(t.rows) |-> RDiv(t.rows[i].profit, t.rows[i].cost)]

\* line 359 assigns the ratio column to the table the view was handed
with_ratio(benefit_data) == SetColumn(benefit_data, "ratio", input_output_ratio(benefit_data))

DisplayColumns == <<"crop", "land", "yield", "cost", "price", "profit", "ratio">>

create_benefit_analysis(benefit_data, planting_data) ==
    LET bd == with_ratio(benefit_data)
    IN [out |-> [fn |-> "create_benefit_analysis",
                 total_potential |-> sum(Column(benefit_data, "profit")),
                 avg_efficiency |-> mean(Column(benefit_data, "profit")),
                 max_benefit_crop |-> benefit_data.rows[idxmax(benefit_data, "profit")].crop,
                 fig_hist |-> Column(benefit_data, "profit"),
                 fig_box |-> [i \in 1..Len(benefit_data.rows) |->
                                 <<benefit_data.rows[i].land, benefit_data.rows[i].profit>>],
                 efficient_crops |-> nlargest(bd, 10, "ratio"),
                 display_data |->
                     [columns |-> DisplayColumns,
                      rows |-> [i \in 1..Len(bd.rows) |->
                                  [c \in Range(DisplayColumns) |->
                                      IF c = "profit" THEN round(bd.rows[i][c], 0)
                                      ELSE IF c = "ratio" THEN round(bd.rows[i][c], 2)
                                      ELSE bd.rows[i][c]]]]],
        benefit_data |-> bd]

create_about_page == [fn |-> "create_about_page"]

(***************************************************************************)
(* main: one render pass                                                   *)
(***************************************************************************)
Pages == <<"dashboard", "planner", "risk", "benefit", "about">>

\* what a pass leaves: the views rendered, the economics table, the generator
Pass(views, benefit_data, rng) ==
    [views |-> views, benefit_data |-> benefit_data, rng |-> rng]

\* variant of main whose last test is an if of its own, not an elif
main_fallthrough(planting_data, benefit_data, page, w, button, rng) ==
    LET first ==
            IF page = "dashboard"
            THEN Pass(<<create_dashboard(planting_data, benefit_data)>>, benefit_data, rng)
            ELSE IF page = "planner"
            THEN LET r == create_planner(planting_data, benefit_data, w, button, rng)
                 IN Pass(<<r.out>>, benefit_data, r.rng)
            ELSE IF page = "risk"
            THEN Pass(<<create_risk_simulator(benefit_data, w)>>, benefit_data, rng)
            ELSE Pass(<<>>, benefit_data, rng)
    IN  IF page = "benefit"
        THEN LET r == create_benefit_analysis(benefit_data, planting_data)
             IN Pass(first.views \o <<r.out>>, r.benefit_data, first.rng)
        ELSE Pass(first.views \o <<create_about_page>>, benefit_data, first.rng)

\* lines 439-448: the router
main(planting_data, benefit_data, page, w, button, rng) ==
    IF page = "dashboard"
    THEN Pass(<<create_dashboard(planting_data, benefit_data)>>, benefit_data, rng)
    ELSE IF page = "planner"
    THEN LET r == create_planner(planting_data, benefit_data, w, button, rng)
         IN Pass(<<r.out>>, benefit_data, r.rng)
    ELSE IF page = "risk"
    THEN Pass(<<create_risk_simulator(benefit_data, w)>>, benefit_data, rng)
    ELSE IF page = "benefit"
    THEN LET r == create_benefit_analysis(benefit_data, planting_data)
         IN Pass(<<r.out>>, r.benefit_data, rng)
    ELSE Pass(<<create_about_page>>, benefit_data, rng)

(***************************************************************************)
(* The state of one browser session on one server process.                 *)
(***************************************************************************)
VARIABLES
    cache,          \* st.cache_data's memo of load_sample_data
    planting_data,  \* the plot table the latest pass handed to its view
    benefit_data,   \* the economics table of the latest pass, as the view left it
    page,           \* the navigation radio
    w,              \* the values of the other widgets
    event,          \* what triggered the latest pass
    out,            \* what the latest pass rendered: one record per view called
    rng,            \* np.random's global generator state
    first_result,   \* history: the first result table ever generated
    generated,      \* history: result tables generated so far, counted up to 2
    call            \* a view function applied to tables given by the caller

vars == <<cache, planting_data, benefit_data, page, w, event, out, rng,
          first_result, generated, call>>

\* the value every widget has when it is first rendered
Defaults ==
    [years |-> 3, risk_level |-> "steady",
     economic_weight |-> 6, stability_weight |-> 3, sustainability_weight |-> 1,
     min_bean_rotation |-> TRUE, avoid_same_crop |-> TRUE, min_plot_size |-> 5,
     selected_crop |-> "wheat", price_change |-> 0, yield_change |-> 0,
     cost_change |-> 0, scenario |-> "normal", policy_options |-> {"grain_subsidy"}]

\* a slider is explored at its two ends and its default
Points(lo, default, hi) == {lo, default, hi}

\* the values a widget can take (weights in tenths)
Domain(k) ==
    CASE k = "years" -> Points(1, 3, 7)
      [] k = "risk_level" -> {"very_cautious", "cautious", "steady", "bold", "very_bold"}
      [] k = "economic_weight" -> Points(0, 6, 10)
      [] k = "stability_weight" -> Points(0, 3, 10)
      [] k = "sustainability_weight" -> Points(0, 1, 10)
      [] k = "min_bean_rotation" -> BOOLEAN
      [] k = "avoid_same_crop" -> BOOLEAN
      [] k = "min_plot_size" -> Points(1, 5, 20)
      [] k = "selected_crop" -> Range(unique(Column(load_sample_data.benefit_data, "crop")))
      [] k = "price_change" -> Points(-50, 0, 50)
      [] k = "yield_change" -> Points(-30, 0, 30)
      [] k = "cost_change" -> Points(-20, 0, 20)
      [] k = "scenario" -> Range(Scenarios)
      [] k = "policy_options" -> SUBSET Policies

\* the widgets each page renders
WidgetsOf(p) ==
    CASE p = "planner" -> {"years", "risk_level", "economic_weight", "stability_weight",
                           "sustainability_weight", "min_bean_rotation",
                           "avoid_same_crop", "min_plot_size"}
      [] p = "risk" -> {"selected_crop", "price_change", "yield_change", "cost_change",
                        "scenario", "policy_options"}
      [] OTHER -> {}

Changed(wv) == Cardinality({k \in DOMAIN wv : wv[k] # Defaults[k]})

\* a multiselect gains or loses one option per event
OneStep(k, old, new) ==
    k = "policy_options" =>
        Cardinality((old \ new) \cup (new \ old)) = 1

NoData == [planting_data |-> EmptyTable, benefit_data |-> EmptyTable]

NoCall == [fn |-> "none"]

Init ==
    /\ cache = [loaded |-> FALSE, value |-> NoData]
    /\ planting_data = EmptyTable
    /\ benefit_data = EmptyTable
    /\ page = Pages[1]
    /\ w = Defaults
    /\ event = "none"
    /\ out = <<>>
    /\ rng \in 0..MaxInitRng
    /\ first_result = <<>>
    /\ generated = 0
    /\ call = NoCall

\* @st.cache_data: the function body runs on the first call only; every call
\* returns its own copy of the memoized tables
cached(c) == IF c.loaded THEN c ELSE [loaded |-> TRUE, value |-> load_sample_data]

\* the result tables a pass displayed
ShownResults(views) ==
    SelectSeq(views, LAMBDA v : v.fn = "create_planner" /\ v.result.shown)

\* one run of the script: main() with the given widget state
RenderPass(p, wv, button, ev) ==
    LET c == cached(cache)
        r == main(c.value.planting_data, c.value.benefit_data, p, wv, button, rng)
    IN  /\ cache' = c
        /\ planting_data' = c.value.planting_data
        /\ benefit_data' = r.benefit_data
        /\ page' = p
        /\ w' = wv
        /\ event' = ev
        /\ out' = r.views
        /\ rng' = r.rng
        /\ first_result' =
              IF first_result = <<>> /\ ShownResults(r.views) # <<>>
              THEN <<ShownResults(r.views)[1].result.result_df>>
              ELSE first_result
        /\ generated' = Min(generated + Len(ShownResults(r.views)), 2)
        /\ UNCHANGED call

\* the browser connects: the first pass, every widget at its default
FirstRun ==
    /\ event = "none"
    /\ RenderPass(page, w, FALSE, "connect")

\* the user picks another page; widgets that are no longer rendered lose
\* their state and start from their default when rendered again
Navigate(p) ==
    /\ event # "none"
    /\ p # page
    /\ RenderPass(p, Defaults, FALSE, "navigate")

\* the user moves a slider, ticks a box or picks an option of the current page
ChangeWidget(k, v) ==
    /\ event # "none"
    /\ k \in WidgetsOf(page)
    /\ v # w[k]
    /\ OneStep(k, w[k], v)
    /\ Changed([w EXCEPT ![k] = v]) <= MaxChanged
    /\ RenderPass(page, [w EXCEPT ![k] = v], FALSE, "widget")

\* the user presses the generate button of the planner
PressGenerate ==
    /\ event # "none"
    /\ page = "planner"
    /\ RenderPass(page, w, TRUE, "button")

Next ==
    \/ FirstRun
    \/ \E p \in Range(Pages) : Navigate(p)
    \/ \E k \in DOMAIN Defaults : \E v \in Domain(k) : ChangeWidget(k, v)
    \/ PressGenerate

Spec == Init /\ [][Next]_vars

(***************************************************************************)
(* The view functions and formulas as functions of their arguments: each   *)
(* is applied to tables and numbers other than the sample data.            *)
(***************************************************************************)
SampleData == load_sample_data

\* plot tables of up to MaxPlots rows; rice and sorghum have no economics row
GivenCrops == {"wheat", "corn", "rice", "sorghum"}

GivenAreas == {40, 80}

GivenPlanting ==
    UNION {{[columns |-> PlantingData.columns,
             rows |-> [i \in 1..n |->
                         PlotRow(PlantingData.rows[i].plot, f[i][1], "grain", f[i][2],
                                 "single")]] :
            f \in [1..n -> GivenCrops \X GivenAreas]} : n \in 1..MaxPlots}

\* economics rows <<yield, cost, price in tenths>>: rows 2 and 3 tie in
\* profit, rows 2 and 4 tie in input-output ratio, row 1 loses money
GivenEconomics == << <<400, 800, 10>>, <<800, 400, 10>>, <<600, 800, 20>>, <<800, 400, 15>> >>

GivenBenefit ==
    UNION {{with_profit([columns |-> BenefitColumns,
                         rows |-> [i \in 1..n |->
                                     CropRow(BenefitRows[i].crop,
                                             GivenEconomics[f[i]][1],
                                             GivenEconomics[f[i]][2],
                                             GivenEconomics[f[i]][3], "flat_dry")]]) :
            f \in [1..n -> 1..Len(GivenEconomics)]} : n \in 1..MaxCrops}

EmptyBenefit == with_profit([columns |-> BenefitColumns, rows |-> <<>>])

\* one application per behaviour, from any initial generator state
OneCall ==
    /\ call = NoCall
    /\ UNCHANGED <<cache, planting_data, benefit_data, page, w, event, out, rng,
                   first_result, generated>>

CallDelta ==
    /\ OneCall
    /\ \E ko \in -MaxK..MaxK, kn \in -MaxK..MaxK :
           call' = [fn |-> "percentage_delta", old |-> I(50 * ko), new |-> I(50 * kn),
                    improvement |-> improvement(I(50 * kn), I(50 * ko)),
                    profit_change |-> profit_change(I(50 * kn), I(50 * ko))]

CallProfit ==
    /\ OneCall
    /\ \E i \in 1..Len(GivenEconomics) :
           LET y == I(GivenEconomics[i][1])
               c == I(GivenEconomics[i][2])
               p == R(GivenEconomics[i][3], 10)
           IN call' = [fn |-> "profit_per_mu", yield |-> y, price |-> p, cost |-> c,
                       res |-> profit_per_mu(y, p, c)]

CallDashboard ==
    /\ OneCall
    /\ \E pd \in GivenPlanting \cup {SampleData.planting_data},
          bd \in GivenBenefit \cup {SampleData.benefit_data} :
           /\ pd = SampleData.planting_data \/ bd = SampleData.benefit_data
           /\ call' = [fn |-> "create_dashboard", planting_data |-> pd, benefit_data |-> bd,
                       res |-> create_dashboard(pd, bd)]

CallPlanner ==
    /\ OneCall
    /\ \E bd \in GivenBenefit \cup {SampleData.benefit_data} :
           call' = [fn |-> "create_planner", planting_data |-> SampleData.planting_data,
                    benefit_data |-> bd,
                    res |-> create_planner(SampleData.planting_data, bd, Defaults, FALSE, 0).out]

CallDisplay ==
    /\ OneCall
    /\ \E pd \in GivenPlanting \cup {SampleData.planting_data} :
           LET bd == SampleData.benefit_data
               r == display_optimization_result(pd, bd, rng)
           IN call' = [fn |-> "display_optimization_result", planting_data |-> pd,
                       benefit_data |-> bd, res |-> r.out, rng_after |-> r.rng]

\* the same with an economics table that has no rows
CallDisplayNoEconomics ==
    /\ OneCall
    /\ \E pd \in GivenPlanting \cup {SampleData.planting_data} :
           LET r == display_optimization_result(pd, EmptyBenefit, rng)
           IN call' = [fn |-> "display_optimization_result", planting_data |-> pd,
                       benefit_data |-> EmptyBenefit, res |-> r.out, rng_after |-> r.rng]

CallBenefit ==
    /\ OneCall
    /\ \E bd \in GivenBenefit \cup {SampleData.benefit_data} :
           LET r == create_benefit_analysis(bd, SampleData.planting_data)
           IN call' = [fn |-> "create_benefit_analysis", benefit_data |-> bd,
                       res |-> r.out, benefit_data_after |-> r.benefit_data]

NextFn ==
    \/ CallDelta
    \/ CallProfit
    \/ CallDashboard
    \/ CallPlanner
    \/ CallDisplay
    \/ CallBenefit
    \/ CallDisplayNoEconomics

SpecFn == Init /\ [][NextFn]_vars

(***************************************************************************)
(* Properties                                                              *)
(***************************************************************************)
HasBenefitTable == call.fn \in {"create_dashboard", "create_planner", "create_benefit_analysis"}

\* yield and cost are whole numbers, so yield * price - cost is
\* (yield * price.n - cost * price.d) / price.d
ProfitFormulaHolds(row) ==
    row.profit = R(row.yield.n * row.price.n - row.cost.n * row.price.d, row.price.d)

\* C1: every row of an economics table stores profit = yield * price - cost
\* of that row, a negative value kept as it is; the wheat row of the sample
\* table holds 400 and its mushroom row 22000.
C1_ProfitPerMu ==
    /\ HasBenefitTable =>
          \A i \in 1..Len(call.benefit_data.rows) :
              ProfitFormulaHolds(call.benefit_data.rows[i])
    /\ call.fn = "profit_per_mu" =>
          ProfitFormulaHolds([yield |-> call.yield, price |-> call.price,
                              cost |-> call.cost, profit |-> call.res])
    /\ (HasBenefitTable /\ call.benefit_data = SampleData.benefit_data) =>
          /\ call.benefit_data.rows[1].crop = "wheat"
          /\ call.benefit_data.rows[1].profit = I(400)
          /\ call.benefit_data.rows[10].crop = "mushroom"
          /\ call.benefit_data.rows[10].profit = I(22000)

\* a table with a loss-making row has been built
C1_Witness ==
    /\ HasBenefitTable
    /\ \E i \in 1..Len(call.benefit_data.rows) :
          /\ RLt(call.benefit_data.rows[i].profit, I(0))
          /\ ProfitFormulaHolds(call.benefit_data.rows[i])

\* (new - old) / old * 100 for whole numbers old # 0
DeltaFormula(old, new) == R((new.n - old.n) * 100, old.n)

\* C2: both percentage deltas (planner, risk simulator) return
\* (new - old) / old * 100 when old is not 0, negative old included, and 100
\* when old is 0; neither ever yields inf or nan.
C2_PercentageDelta ==
    call.fn = "percentage_delta" =>
        LET expected == IF call.old = I(0) THEN I(100) ELSE DeltaFormula(call.old, call.new)
        IN /\ call.improvement = expected
           /\ call.profit_change = expected
           /\ IsFinite(call.improvement)
           /\ IsFinite(call.profit_change)

\* the result row of plot p
ResultRowOf(res, p) == RowsWhere(res.result_df, "plot", p)[1]

Unlisted(row, bd) == row.crop \notin Range(Column(bd, "crop"))

C4_TablesImmutable ==
    event # "none" =>
        /\ planting_data = load_sample_data.planting_data
        /\ benefit_data.columns = load_sample_data.benefit_data.columns
        /\ \A i \in 1..Len(benefit_data.rows) :
              DOMAIN benefit_data.rows[i] = Range(load_sample_data.benefit_data.columns)

ViewOf(p) ==
    CASE p = "dashboard" -> "create_dashboard"
      [] p = "planner" -> "create_planner"
      [] p = "risk" -> "create_risk_simulator"
      [] p = "benefit" -> "create_benefit_analysis"
      [] p = "about" -> "create_about_page"

\* C5: every pass calls exactly one view function, the one the navigation
\* selection names.
C5_ExactlyOneView ==
    event # "none" => (Len(out) = 1 /\ out[1].fn = ViewOf(page))

\* the last page of the menu has been rendered
C5_Witness == event = "navigate" /\ page = "about" /\ Len(out) = 1

\* C6: every generated result table, the first or a later one, equals the
\* first one ever generated: each plot gets the same recommended crop.
C6_Reproducible ==
    \A i \in 1..Len(ShownResults(out)) :
        /\ first_result # <<>>
        /\ ShownResults(out)[i].result.result_df = first_result[1]

\* a table generated by a second or later press of the button
C6_Witness ==
    /\ generated = 2
    /\ ShownResults(out) # <<>>
    /\ Len(ShownResults(out)[1].result.result_df.rows) = 10

\* C7: with the three change sliders at 0 the simulator's adjusted price,
\* yield and cost are the table values of the selected crop, the new profit
\* is the original profit and the profit change is 0.
C7_ZeroChangeIdentity ==
    \A i \in 1..Len(out) :
        (/\ out[i].fn = "create_risk_simulator"
         /\ w.price_change = 0 /\ w.yield_change = 0 /\ w.cost_change = 0) =>
            LET row == RowsWhere(load_sample_data.benefit_data, "crop", w.selected_crop)[1]
            IN /\ out[i].new_price = row.price
               /\ out[i].new_yield = row.yield
               /\ out[i].new_cost = row.cost
               /\ out[i].original_profit = row.profit
               /\ out[i].new_profit = row.profit
               /\ out[i].profit_change = I(0)

\* the simulator rendered a crop other than the default with all sliders at 0
C7_Witness ==
    /\ page = "risk" /\ event = "widget"
    /\ w.selected_crop = "mushroom"
    /\ w.price_change = 0 /\ w.yield_change = 0 /\ w.cost_change = 0
    /\ out[1].new_profit = I(22000)

\* C8: what a pass renders is fixed by the page, the widget values and the
\* sample tables, whatever happened before; the planner's result is shown in
\* exactly the passes triggered by a press of the generate button.
C8_OutputOfCurrentInputsOnly ==
    event # "none" =>
        /\ out = main(load_sample_data.planting_data, load_sample_data.benefit_data,
                      page, w, event = "button", 0).views
        /\ (ShownResults(out) # <<>>) <=> (event = "button")

\* a slider of the planner moved after a result had been generated
C8_Witness ==
    /\ page = "planner" /\ event = "widget" /\ generated >= 1
    /\ ShownResults(out) = <<>>

\* C9: the per-type area sums, and the per-crop area sums the dashboard
\* shows, each add up to the total area of the rows of the plot table, and
\* every type and crop of the table has its group.
C9_GroupSumConservesTotal ==
    call.fn = "create_dashboard" =>
        LET total == RSum(Column(call.planting_data, "area"))
        IN /\ RSum(Column(call.res.type_dist, "area")) = total
           /\ RSum(Column(call.res.crop_dist, "area")) = total
           /\ call.res.total_area = total
           /\ Range(Column(call.res.type_dist, "type")) = Range(Column(call.planting_data, "type"))
           /\ Range(Column(call.res.crop_dist, "crop")) = Range(Column(call.planting_data, "crop"))
           /\ Len(call.res.crop_dist.rows) = Cardinality(Range(Column(call.planting_data, "crop")))

\* the sample table, where several plots share a crop
C9_Witness ==
    /\ call.fn = "create_dashboard"
    /\ call.planting_data = SampleData.planting_data
    /\ Len(call.res.crop_dist.rows) = 7
    /\ call.res.total_area = I(539)

\* position of the row with identifier v in column id
Pos(rows, id, v) == CHOOSE i \in 1..Len(rows) : rows[i][id] = v

\* res is the top n of src by column c: min(n, rows) rows of src, keys
\* descending, equal keys in the order of src, nothing better left out
IsTopN(res, src, id, c, n) ==
    /\ Len(res) = Min(n, Len(src))
    /\ \A j \in 1..Len(res) : res[j] \in Range(src)
    /\ \A j, k \in 1..Len(res) :
          j < k => \/ RGt(res[j][c], res[k][c])
                   \/ /\ res[j][c] = res[k][c]
                      /\ Pos(src, id, res[j][id]) < Pos(src, id, res[k][id])
    /\ \A i \in 1..Len(src) :
          src[i] \notin Range(res) =>
              \A j \in 1..Len(res) :
                  \/ RGt(res[j][c], src[i][c])
                  \/ res[j][c] = src[i][c] /\ Pos(src, id, res[j][id]) < i

====
